---------------------------- MODULE Spec2Model ----------------------------
(***************************************************************************)
(* A model of the Suno playlist downloader: the API client (api.py), the   *)
(* transfer executor and file name sanitizer (utils.py) and the download   *)
(* orchestrator and driver (cli.py).                                       *)
(*                                                                         *)
(* Strings that the program builds from parts (clip ids, titles, file      *)
(* names) are sequences of one-character strings.  JSON values are tagged  *)
(* records: [t |-> "dict", v |-> function], [t |-> "list", v |-> sequence],*)
(* [t |-> "str", v |-> string]; Python's None is [t |-> "none"].           *)
(***************************************************************************)
EXTENDS Integers, Sequences, FiniteSets, TLC

VARIABLES
    gp,     \* the frame of SunoAPI.get_playlist: loop counter, accumulator, outcome
    rq,     \* the frame of SunoAPI.request_download_url
    pp,     \* the frame of process_playlist on the control thread
    main,   \* the driver's loop over the playlist ids
    cfg,    \* the configuration options process_playlist reads
    tasks,  \* the work items given to the pool, in submission order: one
            \* frame of download_with_retries each
    fs,     \* the files on disk: path -> content
    sn      \* a call of sanitize_filename and of it again on its result

vars == <<gp, rq, pp, main, cfg, tasks, fs, sn>>

---------------------------------------------------------------------------
(* Bounds of the model. *)

\* Stands for the 1000000 of range(1, 1000000): pages 1 .. PageCap-1 are requested.
PageCap == 4
\* The largest download_retry_attempts a configuration sets.
MaxAttempts == 3
\* The largest number of chunks iter_content yields for one response body.
MaxChunks == 2
\* The largest download_workers a configuration sets.
MaxWorkers == 2
\* The largest number of clips of a playlist the whole pipeline is run on.
MaxClips == 2
\* The number of playlist ids given to the driver.
NumPlaylists == 2
\* The longest string sanitize_filename is applied to.
MaxLen == 3

---------------------------------------------------------------------------
(* JSON values and merge_json (api.py). *)

PyNone == [t |-> "none"]
PyStr(s) == [t |-> "str", v |-> s]
JDict(f) == [t |-> "dict", v |-> f]
JList(s) == [t |-> "list", v |-> s]
EmptyDict == JDict([k \in {} |-> PyNone])

\* dict.get(key): the value, or None when the key is absent.
DictGet(d, key) == IF key \in DOMAIN d.v THEN d.v[key] ELSE PyNone

\* A plausible slip: the later page's list is put in front.
RECURSIVE merge_json_prepend(_, _)
merge_json_prepend(a, b) ==
    IF a.t = "dict" /\ b.t = "dict"
    THEN JDict([key \in DOMAIN a.v \cup DOMAIN b.v |->
                    IF key \in DOMAIN b.v
                    THEN IF key \in DOMAIN a.v
                         THEN merge_json_prepend(a.v[key], b.v[key])
                         ELSE b.v[key]
                    ELSE a.v[key]])
    ELSE IF a.t = "list" /\ b.t = "list"
    THEN JList(b.v \o a.v)
    ELSE b

RECURSIVE merge_json(_, _)
merge_json(a, b) ==
    IF a.t = "dict" /\ b.t = "dict"
    THEN JDict([key \in DOMAIN a.v \cup DOMAIN b.v |->
                    IF key \in DOMAIN b.v
                    THEN IF key \in DOMAIN a.v
                         THEN merge_json(a.v[key], b.v[key])
                         ELSE b.v[key]
                    ELSE a.v[key]])
    ELSE IF a.t = "list" /\ b.t = "list"
    THEN JList(a.v \o b.v)
    ELSE b

---------------------------------------------------------------------------
(* The remote playlist endpoint: what one page request can answer. *)

\* Clip entries of a page, as the server wraps them: {"clip": {"id", "title"}}.
ClipA == [clip |-> JDict([id |-> PyStr(<<"a">>), title |-> PyStr(<<"x">>)])]
ClipB == [clip |-> JDict([id |-> PyStr(<<"b">>), title |-> PyStr(<<"y">>)])]
ClipC == [clip |-> JDict([id |-> PyStr(<<"c">>)])]

PageClipLists == {<<>>, <<ClipA>>, <<ClipB>>, <<ClipC, ClipA>>}
PageTitles == {<<"t">>, <<"u">>}

\* A page body: the clip sequence, with or without a title.
PageBody(clips, title) ==
    IF title = <<>>
    THEN JDict([key \in {"playlist_clips"} |-> JList(clips)])
    ELSE JDict([key \in {"playlist_clips", "title"} |->
                    IF key = "title" THEN PyStr(title) ELSE JList(clips)])

HttpError == [kind |-> "http_error"]
OkPage(body) == [kind |-> "ok", json |-> body]

PageResponses ==
    {HttpError} \cup
    {OkPage(PageBody(c, t)) : c \in PageClipLists, t \in PageTitles \cup {<<>>}}

PageClips(resp) == DictGet(resp.json, "playlist_clips").v

---------------------------------------------------------------------------
(* SunoAPI.get_playlist (api.py). *)

gp_idle == [status |-> "idle", page |-> 1, all |-> EmptyDict,
            requests |-> <<>>, served |-> <<>>, ret |-> PyNone, exc |-> ""]

\* The call: all = {} and the loop is about to request page 1.
gp_call == [gp_idle EXCEPT !.status = "running"]

\* After the loop: len(all.get('playlist_clips')) is printed, then all is returned.
\* len(None) raises TypeError when the accumulator never got the key.
gp_after_loop(g, all) ==
    IF DictGet(all, "playlist_clips").t = "list"
    THEN [g EXCEPT !.status = "returned", !.all = all, !.ret = all]
    ELSE [g EXCEPT !.status = "raised", !.all = all, !.exc = "TypeError"]

\* A plausible slip: the error is caught and what was merged so far returned.
raise_for_status_caught(g) == [g EXCEPT !.status = "returned", !.ret = g.all]

\* r.raise_for_status() on a non-success status: HTTPError leaves get_playlist.
raise_for_status(g) == [g EXCEPT !.status = "raised", !.exc = "HTTPError"]

\* A plausible slip: the range ends one page later.
range_exhausted_late(page) == page >= PageCap

\* for page in range(1, 1000000): page was the last value of the range.
range_exhausted(page) == page + 1 >= PageCap

\* One iteration of the loop, the server answering the request with resp.
gp_iteration(g, resp) ==
    LET g1 == [g EXCEPT !.requests = Append(@, g.page),
                        !.served = Append(@, resp)]
    IN  IF resp.kind = "http_error"
        THEN raise_for_status(g1)
        ELSE IF Len(PageClips(resp)) = 0
        THEN gp_after_loop(g1, g.all)
        ELSE LET all == merge_json(g.all, resp.json)
             IN  IF range_exhausted(g.page)
                 THEN gp_after_loop(g1, all)
                 ELSE [g1 EXCEPT !.page = @ + 1, !.all = all]

GetPlaylistPage(resp) ==
    /\ gp.status = "running"
    /\ gp' = gp_iteration(gp, resp)
    /\ UNCHANGED <<sn, rq, pp, main, cfg, tasks, fs>>

---------------------------------------------------------------------------
(* The configuration options the pipeline reads (cli.py). *)

DefaultCfg == [download_workers |-> 1, download_retry_attempts |-> 1,
               download_retry_backoff_seconds |-> 2,
               manifest_json |-> TRUE, manifest_csv |-> TRUE]

Backoffs == {2, 3}

---------------------------------------------------------------------------
(* Files: a path is a string, a content is the sequence of chunks written. *)

NoFiles == [p \in {} |-> <<>>]

FileState(fsys, p) ==
    IF p \in DOMAIN fsys THEN [exists |-> TRUE, content |-> fsys[p]]
    ELSE [exists |-> FALSE, content |-> <<>>]

\* A plausible slip: the file is opened in append mode ('ab').
FileOpenAb(fsys, p) ==
    [q \in DOMAIN fsys \cup {p} |-> IF q \in DOMAIN fsys THEN fsys[q] ELSE <<>>]

\* open(out_path, 'wb'): the file is created or truncated.
FileOpenWb(fsys, p) ==
    [q \in DOMAIN fsys \cup {p} |-> IF q = p THEN <<>> ELSE fsys[q]]

\* f.write(chunk), for each of chunks in turn.
FileWrite(fsys, p, chunks) == [fsys EXCEPT ![p] = @ \o chunks]

\* The body of a response, as iter_content cuts it: n chunks.  src names the
\* response (the work item and its attempt; <<0, 0>> for an earlier run).
Body(src, n) == [i \in 1 .. n |-> [src |-> src, idx |-> i, of |-> n]]

\* A content is complete when it is the whole body of one response.
Complete(content) ==
    /\ content # <<>>
    /\ content = Body(content[1].src, content[1].of)

---------------------------------------------------------------------------
(* download_with_retries (utils.py). *)

\* How the request of one attempt can go:
\*   fail_before_open  requests.get, raise_for_status, the content-length
\*                     header or open() raises: the file is not touched;
\*   fail_progress     the file is opened and tqdm(...) raises;
\*   response          the file is opened and the body, n chunks, is streamed.
RequestOutcomes ==
    {[kind |-> "fail_before_open", n |-> 0], [kind |-> "fail_progress", n |-> 0]}
    \cup [kind : {"response"}, n : 1 .. MaxChunks]

\* How the next step of the stream can go:
\*   written        the next chunk arrives, is written and reported;
\*   fail_progress  the next chunk arrives and is written, pbar.update raises;
\*   fail_stream    iter_content raises instead of yielding the next chunk.
ChunkOutcomes == {"written", "fail_progress", "fail_stream"}

\* The outcomes that matter to the orchestrator: the transfer works or not.
PlainRequestOutcomes ==
    {[kind |-> "fail_before_open", n |-> 0], [kind |-> "response", n |-> 1]}
PlainChunkOutcomes == {"written"}

\* A work item as submitted: the arguments of the call and, once it runs, the
\* loop counter, the response being streamed (n chunks, j written), what it
\* slept, and how it ended.  tries and failures count the attempts made and
\* failed; opened is the latest attempt that opened the file (att = 0: none)
\* with what it wrote and how it ended; before is the file as the call found it;
\* done_at is the rank of the work item among those of the pool by the time
\* its future was set (0: not yet).
dl_submitted(url, out_path, attempts, backoff) ==
    [url |-> url, out_path |-> out_path, attempts |-> attempts, backoff |-> backoff,
     status |-> "queued", attempt |-> 0, n |-> 0, j |-> 0,
     ret |-> FALSE, exc |-> <<"", 0>>,
     sleeps |-> <<>>, tries |-> 0, failures |-> 0,
     opened |-> [att |-> 0, n |-> 0, j |-> 0, kind |-> "none"],
     before |-> [exists |-> FALSE, content |-> <<>>],
     done_at |-> 0]

\* The call starts: makedirs, then the loop over range(1, attempts + 1); with
\* no attempt to make, the function falls through to return False.
dl_enter(d, fsys) ==
    IF d.attempts >= 1
    THEN [d EXCEPT !.status = "requesting", !.attempt = 1,
                   !.before = FileState(fsys, d.out_path)]
    ELSE [d EXCEPT !.status = "returned", !.ret = FALSE,
                   !.before = FileState(fsys, d.out_path)]

\* A plausible slip: the loop gives up one attempt early.
dl_gives_up_early(d) == d.attempt >= d.attempts - 1

\* attempt == attempts: the exception is re-raised instead of retried.
dl_is_last_attempt(d) == d.attempt = d.attempts

\* time.sleep(backoff * attempt)
dl_sleep(d) == d.backoff * d.attempt

\* The except clause: re-raise on the last attempt, else sleep and go on to
\* the next attempt.
dl_except(d, kind) ==
    IF dl_is_last_attempt(d)
    THEN [d EXCEPT !.status = "raised", !.failures = @ + 1,
                   !.exc = <<kind, d.attempt>>]
    ELSE [d EXCEPT !.status = "requesting", !.failures = @ + 1,
                   !.attempt = @ + 1, !.sleeps = Append(@, dl_sleep(d))]

\* A plausible slip: the file is opened before the request is made.
dl_opens_always(r) == TRUE

\* Whether the attempt gets as far as open(out_path, 'wb').
dl_opens_file(r) == r.kind # "fail_before_open"

\* The request of an attempt: requests.get, raise_for_status, open, tqdm.
dl_request(d, r) ==
    LET d1 == [d EXCEPT !.tries = @ + 1, !.n = r.n, !.j = 0,
                        !.opened = IF r.kind # "fail_before_open"
                                   THEN [att |-> d.attempt, n |-> r.n, j |-> 0,
                                         kind |-> r.kind]
                                   ELSE @]
    IN  IF r.kind = "response"
        THEN [d1 EXCEPT !.status = "streaming"]
        ELSE dl_except(d1, r.kind)

dl_request_file(fsys, d, r) ==
    IF dl_opens_file(r) THEN FileOpenWb(fsys, d.out_path) ELSE fsys

\* The next step of the loop over iter_content; after the last chunk the
\* with blocks are left and the function returns True.
dl_chunk(d, c) ==
    LET j == IF c = "fail_stream" THEN d.j ELSE d.j + 1
        d1 == [d EXCEPT !.j = j, !.opened.j = j,
                        !.opened.kind = IF c = "written"
                                        THEN IF j = d.n THEN "ok" ELSE @
                                        ELSE c]
    IN  IF c = "written"
        THEN IF j = d.n
             THEN [d1 EXCEPT !.status = "returned", !.ret = TRUE]
             ELSE d1
        ELSE dl_except(d1, c)

\* The chunk that work item k writes next in its current attempt.
NextChunk(k, d) == Body(<<k, d.attempt>>, d.n)[d.j + 1]

dl_chunk_file(fsys, k, d, c) ==
    IF c = "fail_stream" THEN fsys
    ELSE FileWrite(fsys, d.out_path, <<NextChunk(k, d)>>)

Running == {k \in 1 .. Len(tasks) : tasks[k].status \in {"requesting", "streaming"}}
Queued == {k \in 1 .. Len(tasks) : tasks[k].status = "queued"}
Terminated == {k \in 1 .. Len(tasks) : tasks[k].status \in {"returned", "raised"}}

\* The worker sets the future of a work item when the call returns or raises:
\* the work item is then the next to have completed.
future_set(d) ==
    IF d.status \in {"returned", "raised"}
    THEN [d EXCEPT !.done_at = Cardinality(Terminated) + 1]
    ELSE d

\* A plausible slip: a work item starts whether or not a worker is free.
WorkerFreeAlways == TRUE

\* A plausible slip: once the control thread has failed, the work items still
\* queued are not started (shutdown(cancel_futures=True)).
WorkerFreeUntilFailure == Cardinality(Running) < cfg.download_workers /\ pp.exc = ""

\* ThreadPoolExecutor(max_workers=workers): a work item starts only on a free worker.
WorkerFree == Cardinality(Running) < cfg.download_workers

\* A worker thread takes the oldest queued work item and enters the call.
StartTransfer(k) ==
    /\ k \in Queued
    /\ \A q \in Queued : k <= q
    /\ WorkerFree
    /\ tasks' = [tasks EXCEPT ![k] = future_set(dl_enter(@, fs))]
    /\ UNCHANGED <<sn, gp, rq, pp, main, cfg, fs>>

\* The worker running work item k makes the request of its next attempt.
TransferRequest(k, r) ==
    /\ k \in 1 .. Len(tasks)
    /\ tasks[k].status = "requesting"
    /\ tasks' = [tasks EXCEPT ![k] = future_set(dl_request(@, r))]
    /\ fs' = dl_request_file(fs, tasks[k], r)
    /\ UNCHANGED <<sn, gp, rq, pp, main, cfg>>

\* The worker running work item k takes the next step of its stream.
TransferChunk(k, c) ==
    /\ k \in 1 .. Len(tasks)
    /\ tasks[k].status = "streaming"
    /\ tasks' = [tasks EXCEPT ![k] = future_set(dl_chunk(@, c))]
    /\ fs' = dl_chunk_file(fs, k, tasks[k], c)
    /\ UNCHANGED <<sn, gp, rq, pp, main, cfg>>

---------------------------------------------------------------------------
(* Strings: sanitize_filename (utils.py) and the path functions cli.py uses. *)

INVALID_CHARS == {"/", "\\", ":", "?", "*", "\"", "<", ">", "|"}
Whitespace == {" ", "\t", "\n"}

\* str.strip(): leading and trailing whitespace removed.
RECURSIVE lstrip(_)
lstrip(str) ==
    IF str # <<>> /\ Head(str) \in Whitespace THEN lstrip(Tail(str)) ELSE str

RECURSIVE rstrip(_)
rstrip(str) ==
    IF str # <<>> /\ str[Len(str)] \in Whitespace
    THEN rstrip(SubSeq(str, 1, Len(str) - 1))
    ELSE str

strip(str) == rstrip(lstrip(str))

Unnamed == <<"u", "n", "n", "a", "m", "e", "d">>

\* name is a Python value: None or a str.
sanitize_filename(name) ==
    IF name.t = "none" \/ name.v = <<>>
    THEN Unnamed
    ELSE strip([i \in 1 .. Len(name.v) |->
                   IF name.v[i] \in INVALID_CHARS THEN "_" ELSE name.v[i]])

\* The frame of a call of sanitize_filename: the argument, the result, and the
\* result of sanitizing the result.
sn_idle == [pc |-> "idle", name |-> PyNone, out |-> <<>>, again |-> <<>>]
sn_call(name) == [sn_idle EXCEPT !.pc = "called", !.name = name]

\* name = sanitize_filename(name)
SanitizeCall ==
    /\ sn.pc = "called"
    /\ sn' = [sn EXCEPT !.pc = "returned", !.out = sanitize_filename(sn.name)]
    /\ UNCHANGED <<gp, rq, pp, main, cfg, tasks, fs>>

\* sanitize_filename applied to its own result
SanitizeAgain ==
    /\ sn.pc = "returned"
    /\ sn' = [sn EXCEPT !.pc = "twice", !.again = sanitize_filename(PyStr(sn.out))]
    /\ UNCHANGED <<gp, rq, pp, main, cfg, tasks, fs>>

\* f"{value}"
Format(value) == IF value.t = "str" THEN value.v ELSE <<"N", "o", "n", "e">>

LastIndexOf(str, ch) ==
    LET at == {i \in 1 .. Len(str) : str[i] = ch}
    IN  IF at = {} THEN 0 ELSE CHOOSE i \in at : \A other \in at : other <= i

\* signed.split('?')[0]
BeforeQuery(url) ==
    LET at == {i \in 1 .. Len(url) : url[i] = "?"}
    IN  IF at = {} THEN url
        ELSE SubSeq(url, 1, (CHOOSE i \in at : \A other \in at : i <= other) - 1)

\* os.path.splitext(path)[1]: from the last dot of the last component, unless
\* that component has only dots before it.
splitext_ext(path) ==
    LET sep == LastIndexOf(path, "/")
        dot == LastIndexOf(path, ".")
    IN  IF dot > sep /\ \E i \in sep + 1 .. dot - 1 : path[i] # "."
        THEN SubSeq(path, dot, Len(path))
        ELSE <<>>

DotWav == <<".", "w", "a", "v">>

\* os.path.join(directory, name), name being relative.
path_join(directory, name) == directory \o <<"/">> \o name

---------------------------------------------------------------------------
(* SunoAPI.request_download_url (api.py). *)

\* f"https://cdn1.suno.ai/{clip_id}.wav"; "c" stands for https://cdn1.suno.ai.
CdnUrl(clip_id) == <<"c", "/">> \o clip_id \o DotWav

\* URLs the status call can carry: signed, with a query; without an extension.
SignedUrl(clip_id) == <<"s", "/">> \o clip_id \o <<".", "m", "p", "3", "?", "k">>
BareUrl(clip_id) == <<"s", "/">> \o clip_id

\* The prepare call (POST convert_wav): it raises, or answers; the answer is
\* not looked at, whatever its status.
PrepareOutcomes == {"raise", "response_ok", "response_error"}

\* The body of a status response: no body, text that is no JSON, or JSON.
JsonBody(value) == [raw |-> "json", value |-> value]
StatusBodies(clip_id) ==
    {[raw |-> "empty"], [raw |-> "garbage"]}
    \cup {JsonBody(JDict([wav_file_url |-> PyStr(u)])) :
             u \in {SignedUrl(clip_id), BareUrl(clip_id)}}
    \cup {JsonBody(JDict([wav_file_url |-> PyNone])),
          JsonBody(JDict([status |-> PyStr(<<"w">>)])),
          JsonBody(EmptyDict),
          JsonBody(JList(<<>>)),
          JsonBody(PyNone),
          JsonBody(PyStr(<<"w">>))}

\* The status call (GET wav_file): it raises, answers an error status, or
\* answers 2xx with a body.
StatusOutcomes(clip_id) ==
    {[kind |-> "raise"], [kind |-> "http_error"]}
    \cup {[kind |-> "ok", body |-> b] : b \in StatusBodies(clip_id)}

\* What the orchestrator's clips meet in the model of the whole pipeline.
PlainPrepareOutcomes == {"raise", "response_ok"}
PlainStatusOutcomes(clip_id) ==
    {[kind |-> "http_error"],
     [kind |-> "ok", body |-> JsonBody(JDict([wav_file_url |-> PyStr(SignedUrl(clip_id))]))]}

rq_idle == [status |-> "idle", clip_id |-> <<>>, prep |-> "", resp |-> [kind |-> "none"],
            ret |-> <<>>, exc |-> ""]

\* The call: the prepare request is about to be made.
rq_call(clip_id) == [rq_idle EXCEPT !.status = "prepare", !.clip_id = clip_id]

\* requests.post(url1, ...): r1 is never used.
rq_prepare(q, r) ==
    IF r = "raise"
    THEN [q EXCEPT !.status = "raised", !.prep = r, !.exc = "RequestException"]
    ELSE [q EXCEPT !.status = "status_call", !.prep = r]

\* requests.get(url, ...), raise_for_status, r.json(), data.get("wav_file_url").
rq_status(q, o) ==
    LET q1 == [q EXCEPT !.resp = o]
    IN  IF o.kind = "raise"
        THEN [q1 EXCEPT !.status = "raised", !.exc = "RequestException"]
        ELSE IF o.kind = "http_error"
        THEN [q1 EXCEPT !.status = "raised", !.exc = "HTTPError"]
        ELSE IF o.body.raw # "json"
        THEN [q1 EXCEPT !.status = "returned", !.ret = CdnUrl(q.clip_id)]
        ELSE IF o.body.value.t # "dict"
        THEN [q1 EXCEPT !.status = "raised", !.exc = "AttributeError"]
        ELSE LET ret == DictGet(o.body.value, "wav_file_url")
             IN  IF ret.t = "none"
                 THEN [q1 EXCEPT !.status = "returned", !.ret = CdnUrl(q.clip_id)]
                 ELSE [q1 EXCEPT !.status = "returned", !.ret = ret.v]

ResolvePrepare(r) ==
    /\ rq.status = "prepare"
    /\ rq' = rq_prepare(rq, r)
    /\ UNCHANGED <<sn, gp, pp, main, cfg, tasks, fs>>

ResolveStatus(o) ==
    /\ rq.status = "status_call"
    /\ rq' = rq_status(rq, o)
    /\ UNCHANGED <<sn, gp, pp, main, cfg, tasks, fs>>

---------------------------------------------------------------------------
(* process_playlist (cli.py), on the control thread. *)

\* pc is the place the control thread is at:
\*   idle       not in process_playlist
\*   fetch      in api.get_playlist (line 147)
\*   resolve    in the submission loop, in api.request_download_url for
\*              clip i (line 174)
\*   as_completed  the submission loop has ended; as_completed(futures) is
\*              about to look at the futures (line 199)
\*   collect    in the loop over as_completed(futures) (line 199)
\*   shutdown   leaving the with block: ThreadPoolExecutor.__exit__
\*   write      the with block is left; the manifests are written next
\*   finished   returned
\*   raised     an exception has left process_playlist
\* futures[k] is the info dict stored for work item k; finished are the work
\* items as_completed found done when it was called; observed are the work
\* items as_completed has yielded and yielded the same in the order yielded;
\* written the manifests this call wrote; log the resolutions started and
\* submissions made, in order; exc_at the number of work items that had
\* terminated when the control thread met its exception.
pp_idle == [pc |-> "idle", playlist_id |-> <<>>, folder |-> <<>>, clips |-> <<>>,
            i |-> 0, futures |-> <<>>, finished |-> {}, observed |-> {},
            yielded |-> <<>>, manifest |-> <<>>,
            exc |-> "", exc_at |-> 0, written |-> {}, log |-> <<>>]

OutputRoot == <<"d">>
ManifestJson == <<"manifest.json">>
ManifestCsv == <<"manifest.csv">>

\* a or b, for values that are None or a str
PyOr(a, b) == IF a.t = "none" \/ a.v = <<>> THEN b ELSE a

\* playlist_data.get('title') or playlist_data.get('name') or playlist_id
playlist_title(data, playlist_id) ==
    PyOr(DictGet(data, "title"), PyOr(DictGet(data, "name"), PyStr(playlist_id)))

\* playlist_data.get('playlist_clips') or ... or []
playlist_clips(data) ==
    LET c == DictGet(data, "playlist_clips")
    IN  IF c.t = "list" THEN c.v ELSE <<>>

\* clip = clip.get('clip'); clip_id and title, by whether clip is a dict
clip_id_of(entry) ==
    IF entry.clip.t = "dict" THEN DictGet(entry.clip, "id") ELSE entry.clip
title_of(entry) ==
    IF entry.clip.t = "dict" THEN DictGet(entry.clip, "title") ELSE entry.clip

\* ext and out_path of the clip, once its URL is known
ext_of(signed) ==
    LET ext == splitext_ext(BeforeQuery(signed))
    IN  IF ext = <<>> THEN DotWav ELSE ext
out_path_of(folder, entry, signed) ==
    path_join(folder, sanitize_filename(title_of(entry)) \o <<"_">>
                      \o Format(clip_id_of(entry)) \o ext_of(signed))

\* The call: the playlist is about to be fetched.
ProcessCall(playlist_id) ==
    /\ pp' = [pp_idle EXCEPT !.pc = "fetch", !.playlist_id = playlist_id]
    /\ gp' = gp_call
    /\ rq' = rq_idle

\* A plausible slip: the loop steps over every other clip.
next_clip_skips(i) == i + 2

\* for clip in clips: the clip after the i-th
next_clip(i) == i + 1

\* The top of the submission loop for clip i, or the end of the loop.
pp_loop(frame, i) ==
    IF i <= Len(frame.clips)
    THEN [frame EXCEPT !.pc = "resolve", !.i = i,
                       !.log = Append(@, <<"resolve", i>>)]
    ELSE [frame EXCEPT !.pc = "as_completed", !.i = i]
rq_loop(frame, i) ==
    IF i <= Len(frame.clips)
    THEN rq_call(Format(clip_id_of(frame.clips[i])))
    ELSE rq_idle

\* get_playlist returned: the folder is made, the pool created and the
\* submission loop entered.
ProcessFetched ==
    /\ pp.pc = "fetch"
    /\ gp.status = "returned"
    /\ LET title == playlist_title(gp.ret, pp.playlist_id)
           frame == [pp EXCEPT
                       !.clips = playlist_clips(gp.ret),
                       !.folder = path_join(OutputRoot,
                                     sanitize_filename(title) \o <<"_">>
                                        \o pp.playlist_id)]
       IN  /\ pp' = pp_loop(frame, 1)
           /\ rq' = rq_loop(frame, 1)
    /\ tasks' = <<>>
    /\ UNCHANGED <<sn, gp, main, cfg, fs>>

\* get_playlist raised: nothing catches it.
ProcessFetchFailed ==
    /\ pp.pc = "fetch"
    /\ gp.status = "raised"
    /\ pp' = [pp EXCEPT !.pc = "raised", !.exc = gp.exc]
    /\ UNCHANGED <<sn, gp, rq, main, cfg, tasks, fs>>

\* request_download_url returned: the transfer of clip i is submitted, the
\* delay slept and the loop goes on to the next clip.
ProcessResolved ==
    /\ pp.pc = "resolve"
    /\ rq.status = "returned"
    /\ LET entry == pp.clips[pp.i]
           signed == rq.ret
           out_path == out_path_of(pp.folder, entry, signed)
           info == [clip_id |-> clip_id_of(entry), title |-> title_of(entry),
                    path |-> out_path, url |-> signed]
           frame == [pp EXCEPT !.futures = Append(@, info),
                               !.log = Append(@, <<"submit", pp.i>>)]
       IN  /\ tasks' = Append(tasks,
                          dl_submitted(signed, out_path,
                                       cfg.download_retry_attempts,
                                       cfg.download_retry_backoff_seconds))
           /\ pp' = pp_loop(frame, next_clip(pp.i))
           /\ rq' = rq_loop(frame, next_clip(pp.i))
    /\ UNCHANGED <<sn, gp, main, cfg, fs>>

\* request_download_url raised: logged and re-raised, out of the with block.
ProcessResolveFailed ==
    /\ pp.pc = "resolve"
    /\ rq.status = "raised"
    /\ pp' = [pp EXCEPT !.pc = "shutdown", !.exc = "resolve",
                        !.exc_at = Cardinality(Terminated)]
    /\ UNCHANGED <<sn, gp, rq, main, cfg, tasks, fs>>

\* A plausible slip: the exception of a failed transfer is swallowed.
fut_result_swallows(d) == FALSE

\* fut.result() raises what the work item raised.
fut_result_raises(d) == d.status = "raised"

\* as_completed(futures) is called: the futures already done are set apart,
\* to be yielded first.
AsCompletedCall ==
    /\ pp.pc = "as_completed"
    /\ pp' = [pp EXCEPT !.pc = "collect", !.finished = Terminated]
    /\ UNCHANGED <<sn, gp, rq, main, cfg, tasks, fs>>

\* A plausible slip: any done future may be yielded next.
as_completed_yields_any(k) == k \in Terminated \ pp.observed

\* What as_completed may yield next: a future that was done at the call, in
\* the order of a set; once those are used up, the one of the others that
\* completed first.
as_completed_yields(k) ==
    /\ k \in Terminated \ pp.observed
    /\ k \notin pp.finished =>
          /\ pp.finished \subseteq pp.observed
          /\ \A q \in Terminated \ (pp.observed \cup pp.finished) :
                tasks[k].done_at <= tasks[q].done_at

\* A plausible slip: the result of a future is asked for as soon as it is
\* done, the submission loop still running.
collecting_early == pp.pc \in {"resolve", "collect"}

\* The control thread is in the loop over as_completed(futures), which comes
\* after the submission loop.
collecting == pp.pc = "collect"

\* as_completed yields a finished work item not yielded yet; its result is
\* asked for and, unless that raises, its manifest entry is appended.
CollectNext(k) ==
    /\ collecting
    /\ as_completed_yields(k)
    /\ IF fut_result_raises(tasks[k])
       THEN pp' = [pp EXCEPT !.pc = "shutdown", !.exc = "transfer",
                             !.exc_at = Cardinality(Terminated),
                             !.observed = @ \cup {k},
                             !.yielded = Append(@, k)]
       ELSE pp' = [pp EXCEPT
                     !.observed = @ \cup {k},
                     !.yielded = Append(@, k),
                     !.manifest = Append(@,
                        [playlist_id |-> pp.playlist_id,
                         clip_id |-> pp.futures[k].clip_id,
                         title |-> pp.futures[k].title,
                         file_path |-> pp.futures[k].path,
                         download_url |-> pp.futures[k].url])]
    /\ UNCHANGED <<sn, gp, rq, main, cfg, tasks, fs>>

\* A plausible slip: the loop ends with the first future yielded.
as_completed_first == pp.observed # {}

\* as_completed is exhausted once it has yielded every future.
as_completed_exhausted == pp.observed = 1 .. Len(tasks)

\* as_completed has yielded every future: the with block ends.
CollectDone ==
    /\ pp.pc = "collect"
    /\ as_completed_exhausted
    /\ pp' = [pp EXCEPT !.pc = "shutdown"]
    /\ UNCHANGED <<sn, gp, rq, main, cfg, tasks, fs>>

\* A plausible slip: the pool is left without waiting (shutdown(wait=False)).
shutdown_no_wait == TRUE

\* shutdown(wait=True) returns once every work item has run to its end.
shutdown_returns == Queued \cup Running = {}

\* The with block is left: __exit__ waits for the pool, then the exception,
\* if any, goes on to the caller.
PoolExit ==
    /\ pp.pc = "shutdown"
    /\ shutdown_returns
    /\ pp' = [pp EXCEPT !.pc = IF pp.exc = "" THEN "write" ELSE "raised"]
    /\ UNCHANGED <<sn, gp, rq, main, cfg, tasks, fs>>

\* csv.DictWriter: the header, from the first entry's keys, and the rows.
CsvFile(manifest) ==
    [header |-> <<"playlist_id", "clip_id", "title", "file_path", "download_url">>,
     rows |-> manifest]

FilePut(fsys, p, content) ==
    [q \in DOMAIN fsys \cup {p} |-> IF q = p THEN content ELSE fsys[q]]

\* Save manifests: manifest.json when enabled; manifest.csv when enabled and
\* the manifest is not empty.
WriteManifests ==
    /\ pp.pc = "write"
    /\ LET json == cfg.manifest_json
           csv == cfg.manifest_csv /\ pp.manifest # <<>>
           fs1 == IF json
                  THEN FilePut(fs, path_join(pp.folder, ManifestJson), pp.manifest)
                  ELSE fs
       IN  /\ fs' = IF csv
                    THEN FilePut(fs1, path_join(pp.folder, ManifestCsv),
                                 CsvFile(pp.manifest))
                    ELSE fs1
           /\ pp' = [pp EXCEPT !.pc = "finished",
                               !.written = (IF json THEN {"json"} ELSE {})
                                           \cup (IF csv THEN {"csv"} ELSE {})]
    /\ UNCHANGED <<sn, gp, rq, main, cfg, tasks>>

---------------------------------------------------------------------------
(* main (cli.py): the loop over the playlist ids. *)

\* The n-th playlist id given: "p", "pp", ...
PlaylistId(n) == [i \in 1 .. n |-> "p"]

\* to_process are the ids given; idx counts the calls of process_playlist and
\* returned those of them that have returned.
main_idle == [status |-> "idle", to_process |-> <<>>, idx |-> 0, returned |-> 0]
main_start(ids) == [main_idle EXCEPT !.status = "running", !.to_process = ids]

\* A plausible slip: the loop goes on after a playlist has raised.
main_goes_on_after_error == pp.pc \in {"idle", "finished", "raised"}

\* The loop goes on to its next iteration when the call before, if any, returned.
main_goes_on == pp.pc \in {"idle", "finished"}

\* for pid in to_process: the next call of process_playlist, or return 0.
MainNext ==
    /\ main.status = "running"
    /\ main_goes_on
    /\ LET returned == main.returned + (IF pp.pc = "finished" THEN 1 ELSE 0)
       IN  IF main.idx < Len(main.to_process)
           THEN /\ main' = [main EXCEPT !.idx = @ + 1, !.returned = returned]
                /\ ProcessCall(main.to_process[main.idx + 1])
           ELSE /\ main' = [main EXCEPT !.status = "returned", !.returned = returned]
                /\ UNCHANGED <<sn, gp, rq, pp>>
    /\ UNCHANGED <<sn, cfg, tasks, fs>>

\* except Exception: the error is printed and raised again.
MainReraise ==
    /\ main.status = "running"
    /\ pp.pc = "raised"
    /\ main' = [main EXCEPT !.status = "raised"]
    /\ UNCHANGED <<sn, gp, rq, pp, cfg, tasks, fs>>

---------------------------------------------------------------------------
(* get_playlist alone, against every page sequence of the endpoint. *)

InitPlaylist ==
    /\ gp = gp_call
    /\ rq = rq_idle /\ pp = pp_idle /\ main = main_idle
    /\ cfg = DefaultCfg
    /\ tasks = <<>>
    /\ fs = NoFiles
    /\ sn = sn_idle

FetchPage == \E resp \in PageResponses : GetPlaylistPage(resp)

NextPlaylist == FetchPage

SpecPlaylist == InitPlaylist /\ [][NextPlaylist]_vars

\* The same, every request being answered in the end (requests.get is given
\* a timeout).
SpecPlaylistFair == SpecPlaylist /\ WF_vars(FetchPage)

---------------------------------------------------------------------------
(* download_with_retries alone: one call, every outcome of every attempt. *)

OutPath == <<"o">>
Url == CdnUrl(<<"a">>)

OldFiles == {NoFiles,
             [p \in {OutPath} |-> Body(<<0, 0>>, 1)],
             [p \in {OutPath} |-> SubSeq(Body(<<0, 0>>, 2), 1, 1)]}

InitDownload ==
    /\ gp = gp_idle
    /\ rq = rq_idle /\ pp = pp_idle /\ main = main_idle
    /\ cfg = DefaultCfg
    /\ \E n \in 0 .. MaxAttempts, b \in Backoffs :
          tasks = <<dl_submitted(Url, OutPath, n, b)>>
    /\ fs \in OldFiles
    /\ sn = sn_idle

DownloadEnter == StartTransfer(1)

DownloadRequest == \E r \in RequestOutcomes : TransferRequest(1, r)

DownloadChunk == \E c \in ChunkOutcomes : TransferChunk(1, c)

NextDownload == DownloadEnter \/ DownloadRequest \/ DownloadChunk

SpecDownload == InitDownload /\ [][NextDownload]_vars

---------------------------------------------------------------------------
(* request_download_url alone: one call, every answer of the two endpoints. *)

ClipIds == {<<"a">>, <<"b">>, <<"c">>, <<"x", "y", "z">>, <<"a", ".", "b">>}

InitResolve ==
    /\ gp = gp_idle
    /\ \E c \in ClipIds : rq = rq_call(c)
    /\ pp = pp_idle /\ main = main_idle
    /\ cfg = DefaultCfg
    /\ tasks = <<>>
    /\ fs = NoFiles
    /\ sn = sn_idle

PrepareCall == \E r \in PrepareOutcomes : ResolvePrepare(r)

StatusCall == \E o \in StatusOutcomes(rq.clip_id) : ResolveStatus(o)

NextResolve == PrepareCall \/ StatusCall

SpecResolve == InitResolve /\ [][NextResolve]_vars

---------------------------------------------------------------------------
(* sanitize_filename alone, on every short string and on None. *)

\* The characters of the names: a letter, whitespace, every forbidden one.
NameChars == {"a", "_", " ", "\t"} \cup INVALID_CHARS
Names ==
    {PyNone} \cup
    {PyStr(str) : str \in UNION {[1 .. n -> NameChars] : n \in 0 .. MaxLen}}

InitSanitize ==
    /\ gp = gp_idle
    /\ rq = rq_idle /\ pp = pp_idle /\ main = main_idle
    /\ cfg = DefaultCfg
    /\ tasks = <<>>
    /\ fs = NoFiles
    /\ \E name \in Names : sn = sn_call(name)

NextSanitize == SanitizeCall \/ SanitizeAgain

SpecSanitize == InitSanitize /\ [][NextSanitize]_vars

---------------------------------------------------------------------------
(* The whole pipeline: main, process_playlist, the pool and its transfers. *)

\* The download_retry_attempts the pipeline is run under: none, one attempt,
\* one retry.
RetryChoices == 0 .. 2

Configs ==
    [download_workers : 1 .. MaxWorkers,
     download_retry_attempts : RetryChoices,
     download_retry_backoff_seconds : {2},
     manifest_json : BOOLEAN,
     manifest_csv : BOOLEAN]

\* The pages the endpoint serves the pipeline: one clip each, no title.
PipelineResponses ==
    {HttpError} \cup {OkPage(PageBody(c, <<>>)) : c \in {<<>>, <<ClipA>>, <<ClipC>>}}

Init ==
    /\ gp = gp_idle
    /\ rq = rq_idle
    /\ pp = pp_idle
    /\ main = main_start(<<PlaylistId(1)>>)
    /\ cfg \in Configs
    /\ tasks = <<>>
    /\ fs = NoFiles
    /\ sn = sn_idle

PipelineFetch ==
    /\ pp.pc = "fetch"
    /\ \E resp \in PipelineResponses :
          /\ resp.kind = "ok" =>
                Len(playlist_clips(gp.all)) + Len(PageClips(resp)) <= MaxClips
          /\ GetPlaylistPage(resp)

PipelinePrepare ==
    /\ pp.pc = "resolve"
    /\ \E r \in PlainPrepareOutcomes : ResolvePrepare(r)

PipelineStatus ==
    /\ pp.pc = "resolve"
    /\ \E o \in PlainStatusOutcomes(rq.clip_id) : ResolveStatus(o)

WorkerStart == \E k \in 1 .. Len(tasks) : StartTransfer(k)

WorkerRequest ==
    \E k \in 1 .. Len(tasks), r \in PlainRequestOutcomes : TransferRequest(k, r)

WorkerChunk ==
    \E k \in 1 .. Len(tasks), c \in PlainChunkOutcomes : TransferChunk(k, c)

Collect == \E k \in 1 .. Len(tasks) : CollectNext(k)

Next ==
    \/ MainNext
    \/ MainReraise
    \/ PipelineFetch
    \/ ProcessFetched
    \/ ProcessFetchFailed
    \/ PipelinePrepare
    \/ PipelineStatus
    \/ ProcessResolved
    \/ ProcessResolveFailed
    \/ WorkerStart
    \/ WorkerRequest
    \/ WorkerChunk
    \/ AsCompletedCall
    \/ Collect
    \/ CollectDone
    \/ PoolExit
    \/ WriteManifests

Spec == Init /\ [][Next]_vars

---------------------------------------------------------------------------
(* The driver on several playlists, each of one page at most. *)

\* The pages the endpoint serves the driver: up to two clips, no title.
MainResponses ==
    {HttpError} \cup
    {OkPage(PageBody(c, <<>>)) : c \in {<<>>, <<ClipA>>, <<ClipA, ClipC>>}}

InitMain ==
    /\ gp = gp_idle
    /\ rq = rq_idle
    /\ pp = pp_idle
    /\ main = main_start([n \in 1 .. NumPlaylists |-> PlaylistId(n)])
    /\ cfg = DefaultCfg
    /\ tasks = <<>>
    /\ fs = NoFiles
    /\ sn = sn_idle

MainFetch ==
    /\ pp.pc = "fetch"
    /\ \E resp \in MainResponses :
          /\ (resp.kind = "ok" /\ gp.page > 1) => Len(PageClips(resp)) = 0
          /\ GetPlaylistPage(resp)

NextMain ==
    \/ MainNext
    \/ MainReraise
    \/ MainFetch
    \/ ProcessFetched
    \/ ProcessFetchFailed
    \/ PipelinePrepare
    \/ PipelineStatus
    \/ ProcessResolved
    \/ ProcessResolveFailed
    \/ WorkerStart
    \/ WorkerRequest
    \/ WorkerChunk
    \/ AsCompletedCall
    \/ Collect
    \/ CollectDone
    \/ PoolExit
    \/ WriteManifests

SpecMain == InitMain /\ [][NextMain]_vars

---------------------------------------------------------------------------
(* One playlist of one page, the pool's workers being scheduled fairly: a   *)
(* worker that can take a work item, make a request or read a chunk does so *)
(* in the end (requests time out, so no attempt lasts for ever).            *)

FairConfigs ==
    [download_workers : 1 .. MaxWorkers,
     download_retry_attempts : RetryChoices,
     download_retry_backoff_seconds : {2},
     manifest_json : {TRUE},
     manifest_csv : {TRUE}]

InitFair ==
    /\ gp = gp_idle
    /\ rq = rq_idle
    /\ pp = pp_idle
    /\ main = main_start(<<PlaylistId(1)>>)
    /\ cfg \in FairConfigs
    /\ tasks = <<>>
    /\ fs = NoFiles
    /\ sn = sn_idle

Fairness ==
    /\ WF_vars(WorkerStart)
    /\ WF_vars(WorkerRequest)
    /\ WF_vars(WorkerChunk)

SpecFair == InitFair /\ [][NextMain]_vars /\ Fairness

---------------------------------------------------------------------------
(* Claims about get_playlist. *)

RECURSIVE ConcatClips(_)
ConcatClips(pages) ==
    IF pages = <<>> THEN <<>>
    ELSE PageClips(pages[1]) \o ConcatClips(Tail(pages))

NonEmptyPage(resp) == resp.kind = "ok" /\ Len(PageClips(resp)) > 0
EmptyPage(resp) == resp.kind = "ok" /\ Len(PageClips(resp)) = 0

\* The served pages are k >= 1 non-empty pages followed by one empty page.
EndsAtEmptyPage ==
    /\ Len(gp.served) >= 2
    /\ EmptyPage(gp.served[Len(gp.served)])
    /\ \A n \in 1 .. Len(gp.served) - 1 : NonEmptyPage(gp.served[n])

\* C1: the pages are requested as 1, 2, 3, ... and none after the first empty
\* one; when k >= 1 non-empty pages are followed by an empty page, get_playlist
\* has issued exactly k+1 requests and returns the clips of pages 1..k
\* concatenated in page order.
C1_PaginationMerge ==
    /\ gp.requests = [n \in 1 .. Len(gp.requests) |-> n]
    /\ Len(gp.served) = Len(gp.requests)
    /\ \A n \in 1 .. Len(gp.served) - 1 : NonEmptyPage(gp.served[n])
    /\ EndsAtEmptyPage =>
          /\ gp.status = "returned"
          /\ DictGet(gp.ret, "playlist_clips")
                = JList(ConcatClips(SubSeq(gp.served, 1, Len(gp.served) - 1)))

C1_Witness ==
    /\ EndsAtEmptyPage
    /\ gp.status = "returned"
    /\ Len(gp.requests) = 3
    /\ DictGet(gp.ret, "playlist_clips").v = <<ClipC, ClipA, ClipB>>

---------------------------------------------------------------------------
(* Claims about download_with_retries, on the one work item of SpecDownload. *)

TheTask == tasks[1]
TheFile == FileState(fs, OutPath)

\* The sleeps of a call whose first k attempts failed: backoff*1, ..., backoff*k.
LinearSleeps(d, k) == [i \in 1 .. k |-> d.backoff * i]

\* C4: a transfer whose first k attempts raise and whose attempt k+1 succeeds
\* (k+1 <= max_attempts) returns True after exactly k+1 attempts, has slept
\* backoff*1, ..., backoff*k, one sleep after each failed attempt, and the
\* destination holds exactly the body of the successful attempt.
C4_RetryThenSucceed ==
    /\ Len(tasks) = 1 /\ TheTask.status \in {"requesting", "streaming"} =>
          /\ TheTask.attempt = TheTask.failures + 1
          /\ TheTask.tries = IF TheTask.status = "streaming"
                             THEN TheTask.attempt ELSE TheTask.failures
          /\ TheTask.sleeps = LinearSleeps(TheTask, TheTask.failures)
    /\ Len(tasks) = 1 /\ TheTask.status = "returned" /\ TheTask.attempts >= 1 =>
          /\ TheTask.ret = TRUE
          /\ TheTask.tries = TheTask.failures + 1
          /\ TheTask.tries <= TheTask.attempts
          /\ TheTask.sleeps = LinearSleeps(TheTask, TheTask.failures)
          /\ TheFile.exists
          /\ TheFile.content = Body(<<1, TheTask.tries>>, TheTask.n)

C4_Witness ==
    /\ Len(tasks) = 1
    /\ TheTask.status = "returned" /\ TheTask.ret = TRUE
    /\ TheTask.failures = 2 /\ TheTask.tries = 3
    /\ TheTask.sleeps = <<TheTask.backoff, TheTask.backoff * 2>>
    /\ TheTask.before.exists
    /\ Len(TheFile.content) = 2 /\ Complete(TheFile.content)

\* C5: a transfer that fails on every attempt (max_attempts >= 1) makes exactly
\* max_attempts attempts, sleeps after each failed attempt but the last, and
\* then raises the exception of the last attempt; it does not return.
C5_RetryExhaustion ==
    Len(tasks) = 1 /\ TheTask.attempts >= 1 =>
       /\ TheTask.tries <= TheTask.attempts
       /\ (TheTask.status \in {"returned", "raised"}
              /\ TheTask.failures = TheTask.tries) =>
             /\ TheTask.status = "raised"
             /\ TheTask.tries = TheTask.attempts
             /\ TheTask.sleeps = LinearSleeps(TheTask, TheTask.attempts - 1)
             /\ TheTask.exc[2] = TheTask.attempts
       /\ TheTask.status = "raised" => TheTask.failures = TheTask.attempts

C5_Witness ==
    /\ Len(tasks) = 1
    /\ TheTask.status = "raised"
    /\ TheTask.attempts = 3 /\ TheTask.tries = 3
    /\ Len(TheTask.sleeps) = 2

\* C6 as claimed: after a transfer has failed on every attempt, no complete
\* file is at the destination, whatever was there before.
C6_NoCompleteFileAfterFailure ==
    Len(tasks) = 1 /\ TheTask.status = "raised" => ~ Complete(TheFile.content)

\* C6 as amended: after a transfer has failed on every attempt, the destination
\* is as the call found it when no attempt opened the file (a complete earlier
\* file stays), and otherwise holds what the last attempt that opened it wrote:
\* the first j chunks of that attempt's body, all of them only when progress
\* reporting raised after the last chunk was written.
C6_FileAfterFailure ==
    Len(tasks) = 1 /\ TheTask.status = "raised" =>
       IF TheTask.opened.att = 0
       THEN TheFile = TheTask.before
       ELSE /\ TheFile.exists
            /\ TheFile.content =
                  SubSeq(Body(<<1, TheTask.opened.att>>, TheTask.opened.n),
                         1, TheTask.opened.j)
            /\ Complete(TheFile.content) => TheTask.opened.kind = "fail_progress"

C6_Witness ==
    /\ Len(tasks) = 1 /\ TheTask.status = "raised"
    /\ TheTask.tries = 2
    /\ TheTask.opened.att = 1 /\ TheTask.opened.kind = "fail_stream"
    /\ TheTask.before.exists /\ Complete(TheTask.before.content)
    /\ TheFile.exists /\ Len(TheFile.content) = 1 /\ ~ Complete(TheFile.content)

---------------------------------------------------------------------------
(* Claims about request_download_url. *)

\* The status call answered 2xx and its body is absent, unparsable, or JSON
\* of any shape without a wav_file_url.
StatusLacksUrl ==
    /\ rq.resp.kind = "ok"
    /\ \/ rq.resp.body.raw # "json"
       \/ rq.resp.body.value.t # "dict"
       \/ DictGet(rq.resp.body.value, "wav_file_url").t = "none"

StatusHasUrl ==
    /\ rq.resp.kind = "ok"
    /\ rq.resp.body.raw = "json"
    /\ rq.resp.body.value.t = "dict"
    /\ DictGet(rq.resp.body.value, "wav_file_url").t = "str"

\* C7: whatever the prepare call answered, a successful status call whose body
\* is absent, unparsable or JSON of any shape without the URL field makes
\* request_download_url return the CDN URL built from the clip id, without
\* raising; when the field is present its value is returned.
C7_FallbackUrl ==
    /\ StatusLacksUrl => rq.status = "returned" /\ rq.ret = CdnUrl(rq.clip_id)
    /\ StatusHasUrl =>
          /\ rq.status = "returned"
          /\ rq.ret = DictGet(rq.resp.body.value, "wav_file_url").v

---------------------------------------------------------------------------
(* Claims about process_playlist, on the whole pipeline. *)

\* The clip entries of the playlist, as the pages served carry them.
ServedClips == ConcatClips(SelectSeq(gp.served, LAMBDA resp : resp.kind = "ok"))

ClipIdsOf(entries) == [n \in 1 .. Len(entries) |-> clip_id_of(entries[n])]
ManifestIds(manifest) == [n \in 1 .. Len(manifest) |-> manifest[n].clip_id]

Occurrences(seq, x) == Cardinality({n \in 1 .. Len(seq) : seq[n] = x})
IsPermutation(a, b) ==
    /\ Len(a) = Len(b)
    /\ \A n \in 1 .. Len(a) : Occurrences(a, a[n]) = Occurrences(b, a[n])

JsonPath == path_join(pp.folder, ManifestJson)
CsvPath == path_join(pp.folder, ManifestCsv)

\* Every page fetch, URL resolution and transfer so far succeeded.
NothingFailed ==
    /\ \A n \in 1 .. Len(gp.served) : gp.served[n].kind = "ok"
    /\ rq.status # "raised"
    /\ \A k \in 1 .. Len(tasks) : tasks[k].failures = 0

\* C2: for a playlist of N >= 0 clips whose page fetches, URL resolutions and
\* transfers all succeed, process_playlist does not raise, and once it has
\* finished manifest.json (when enabled) holds N entries whose clip ids are a
\* permutation of the playlist's, and manifest.csv (when enabled) holds the
\* header and N rows when N > 0 and is not written when N = 0.
C2_ManifestComplete ==
    /\ pp.pc = "raised" => ~ NothingFailed
    /\ (pp.pc = "finished" /\ NothingFailed
           /\ \A k \in 1 .. Len(tasks) : tasks[k].ret = TRUE) =>
          /\ cfg.manifest_json =>
                /\ JsonPath \in DOMAIN fs
                /\ Len(fs[JsonPath]) = Len(ServedClips)
                /\ IsPermutation(ManifestIds(fs[JsonPath]), ClipIdsOf(ServedClips))
          /\ cfg.manifest_csv =>
                IF Len(ServedClips) > 0
                THEN /\ CsvPath \in DOMAIN fs
                     /\ Len(fs[CsvPath].rows) = Len(ServedClips)
                ELSE CsvPath \notin DOMAIN fs

\* A clip failed irrecoverably: its URL resolution raised, or its transfer
\* raised after its last attempt.
ClipFailed ==
    \/ rq.status = "raised"
    \/ \E k \in 1 .. Len(tasks) : tasks[k].status = "raised"

\* C3: once a clip has failed irrecoverably, process_playlist does not go on
\* to write the manifests and does not return: it writes neither manifest.json
\* nor manifest.csv, and the only way it ends is by raising.
C3_FailureAbortsPlaylist ==
    ClipFailed =>
       /\ pp.pc \notin {"write", "finished"}
       /\ pp.written = {}
       /\ JsonPath \notin DOMAIN fs /\ CsvPath \notin DOMAIN fs
       /\ main.status # "returned"

C3_Witness ==
    /\ pp.pc = "raised" /\ pp.exc = "transfer"
    /\ main.status = "raised"
    /\ Len(pp.manifest) = 1
    /\ \E k \in 1 .. Len(tasks) : tasks[k].status = "returned" /\ tasks[k].ret = TRUE
    /\ \E k \in 1 .. Len(tasks) :
          tasks[k].status = "raised" /\ tasks[k].tries = cfg.download_retry_attempts

\* C8: at every moment the transfers running are at most download_workers;
\* the others submitted wait in the queue.
C8_BoundedConcurrency == Cardinality(Running) <= cfg.download_workers

C8_Witness ==
    /\ Cardinality(Running) = cfg.download_workers
    /\ Queued # {}

\* The log of a submission loop that has dealt with n clips.
LoopLog(n) ==
    [e \in 1 .. 2 * n |->
        IF e % 2 = 1 THEN <<"resolve", (e + 1) \div 2>> ELSE <<"submit", e \div 2>>]

\* C9: the control thread resolves and submits the clips in playlist order:
\* resolve 1, submit 1, resolve 2, submit 2, ..., each once; the work items
\* are the clips' transfers in playlist order; and once the loop has ended
\* every clip has been resolved and submitted.
C9_SubmissionOrder ==
    /\ Len(pp.log) <= 2 * Len(pp.clips)
    /\ pp.log = SubSeq(LoopLog(Len(pp.clips)), 1, Len(pp.log))
    /\ pp.pc = "resolve" =>
          /\ Len(pp.log) = 2 * pp.i - 1
          /\ rq.clip_id = Format(clip_id_of(pp.clips[pp.i]))
    /\ pp.pc # "idle" /\ pp.pc # "fetch" =>
          /\ Len(tasks) = Len(pp.futures)
          /\ Len(tasks) = Len(pp.log) \div 2
          /\ \A k \in 1 .. Len(tasks) :
                /\ pp.futures[k].clip_id = clip_id_of(pp.clips[k])
                /\ tasks[k].out_path = pp.futures[k].path
                /\ tasks[k].url = pp.futures[k].url
    /\ (pp.pc \in {"as_completed", "collect", "write", "finished"}
           \/ (pp.pc \in {"shutdown", "raised"} /\ pp.exc \in {"", "transfer"})) =>
          pp.log = LoopLog(Len(pp.clips))

C9_Witness ==
    /\ pp.pc = "collect"
    /\ Len(pp.clips) = 2
    /\ pp.log = <<<<"resolve", 1>>, <<"submit", 1>>, <<"resolve", 2>>, <<"submit", 2>>>>
    /\ pp.futures[1].clip_id # pp.futures[2].clip_id

\* C10 as claimed: after a resolution failure process_playlist raises without
\* waiting for the transfers already submitted: the exception is never held
\* back at the exit of the pool.
C10_RaisesWithoutWaiting ==
    (pp.pc = "shutdown" /\ pp.exc = "resolve") => ENABLED PoolExit

\* C10 as amended: when URL resolution fails for a clip, the exception reaches
\* the caller of process_playlist only after every transfer already submitted
\* has run to its end: none is queued or running when the caller observes it.
C10_RaisesAfterTransfersEnd ==
    (pp.exc = "resolve" /\ (pp.pc = "raised" \/ main.status = "raised")) =>
       Queued \cup Running = {}

C10_Witness ==
    /\ pp.exc = "resolve"
    /\ main.status = "raised"
    /\ Len(tasks) = 1
    /\ tasks[1].status = "returned" /\ tasks[1].ret = TRUE

\* C11: the manifests are written by the control thread alone and only after
\* every transfer of the playlist has been awaited and has terminated: while
\* the manifests are being written, and whenever a manifest file exists, no
\* transfer is queued or running and as_completed has yielded every one of
\* them; and no transfer has a manifest file as its destination.
C11_ManifestAfterTransfers ==
    /\ (pp.pc = "write" \/ JsonPath \in DOMAIN fs \/ CsvPath \in DOMAIN fs) =>
          /\ pp.pc \in {"write", "finished"}
          /\ Queued \cup Running = {}
          /\ pp.observed = 1 .. Len(tasks)
    /\ pp.written # {} => pp.pc = "finished"
    /\ \A k \in 1 .. Len(tasks) : tasks[k].out_path \notin {JsonPath, CsvPath}

C11_Witness ==
    /\ pp.pc = "write"
    /\ cfg.download_workers = 2
    /\ Len(tasks) = 2
    /\ \A k \in 1 .. 2 : tasks[k].status = "returned" /\ tasks[k].tries = 2

\* C12: within one playlist any two submitted transfers have different
\* destination paths, whatever the playlist holds, a clip occurring twice
\* included; so no two transfers write the same file.
C12_DistinctPaths ==
    \A j, k \in 1 .. Len(tasks) : j # k => tasks[j].out_path # tasks[k].out_path

\* The manifest process_playlist has written (manifest.json), once it has.
WrittenManifest == fs[JsonPath]
ManifestWritten == pp.pc = "finished" /\ JsonPath \in DOMAIN fs

\* Entry n of a manifest is the entry of the n-th work item yielded.
EntriesFollowYield(manifest) ==
    /\ Len(manifest) = Len(pp.yielded)
    /\ \A n \in 1 .. Len(manifest) :
          /\ manifest[n].clip_id = pp.futures[pp.yielded[n]].clip_id
          /\ manifest[n].file_path = tasks[pp.yielded[n]].out_path

\* C13 as claimed: when all transfers succeed, the entries of the written
\* manifest are in the order in which the transfers completed.
C13_CompletionOrder ==
    ManifestWritten =>
       /\ EntriesFollowYield(WrittenManifest)
       /\ \A n, m \in 1 .. Len(pp.yielded) :
             n < m => tasks[pp.yielded[n]].done_at < tasks[pp.yielded[m]].done_at

\* C13 as amended: when all transfers succeed, the entries of the written
\* manifest are in the order in which as_completed yielded the transfers:
\* first those that had completed when the collection loop began, in no
\* particular order among themselves, then the others in the order in which
\* they completed.
C13_YieldOrder ==
    /\ pp.exc = "" => EntriesFollowYield(pp.manifest)
    /\ ManifestWritten => WrittenManifest = pp.manifest
    /\ \A n, m \in 1 .. Len(pp.yielded) :
          (n < m /\ pp.yielded[n] \notin pp.finished) =>
             /\ pp.yielded[m] \notin pp.finished
             /\ tasks[pp.yielded[n]].done_at < tasks[pp.yielded[m]].done_at

\* The manifest is in neither clip order nor completion order: the second
\* clip's transfer completed last and is listed first.
C13_Witness ==
    /\ ManifestWritten
    /\ Len(WrittenManifest) = 2
    /\ pp.yielded = <<2, 1>>
    /\ tasks[1].done_at = 1 /\ tasks[2].done_at = 2
    /\ pp.finished = {1, 2}

---------------------------------------------------------------------------
(* Claims about main, on the driver given several playlists. *)

\* C14: the playlists are processed one after the other in the order given:
\* the pipeline running is that of playlist idx, every playlist before it has
\* returned by then and has no transfer left queued or running; and once a
\* pipeline has raised the driver raises too, no later playlist is processed
\* and nothing runs any more.
C14_SequentialPlaylists ==
    /\ main.idx <= Len(main.to_process)
    /\ pp.pc # "idle" => pp.playlist_id = main.to_process[main.idx]
    /\ main.returned = IF main.status = "returned" \/ main.idx = 0
                       THEN main.idx ELSE main.idx - 1
    /\ pp.pc \in {"idle", "fetch", "finished", "raised"} => Queued \cup Running = {}
    /\ pp.pc = "raised" => ~ ENABLED MainNext
    /\ main.status = "raised" =>
          /\ pp.pc = "raised"
          /\ ~ ENABLED NextMain

C14_Witness ==
    /\ main.status = "raised"
    /\ main.idx = 2 /\ main.returned = 1
    /\ pp.exc = "transfer"
    /\ path_join(path_join(OutputRoot, PlaylistId(1) \o <<"_">> \o PlaylistId(1)),
                 ManifestJson) \in DOMAIN fs

---------------------------------------------------------------------------
(* Claims about sanitize_filename. *)

\* C15: for every input, the empty string and strings of whitespace or of
\* forbidden characters only included, the result of sanitize_filename holds
\* none of the forbidden characters and sanitizing it again gives it back.
C15_SanitizeIdempotent ==
    /\ sn.pc \in {"returned", "twice"} =>
          \A n \in 1 .. Len(sn.out) : sn.out[n] \notin INVALID_CHARS
    /\ sn.pc = "twice" => sn.again = sn.out

---------------------------------------------------------------------------
(* Claims about the pool under fair scheduling. *)

\* C16: a transfer submitted to the pool is never cancelled: under fair
\* scheduling it terminates in the end, having returned after a complete
\* download or having made all its attempts, whatever happens to the control
\* thread meanwhile.
C16_TransfersTerminate ==
    /\ [](\A k \in Terminated :
             \/ tasks[k].status = "returned" /\ tasks[k].ret = TRUE
             \/ tasks[k].tries = tasks[k].attempts)
    /\ \A k \in 1 .. MaxClips : (Len(tasks) >= k) ~> (k \in Terminated)

\* A transfer has completed its download after the control thread failed to
\* resolve a later clip.
C16_Witness ==
    /\ pp.exc = "resolve" /\ pp.exc_at = 0
    /\ Len(tasks) = 1
    /\ tasks[1].status = "returned" /\ tasks[1].ret = TRUE /\ tasks[1].tries = 2

---------------------------------------------------------------------------
(* Further claims about download_with_retries, on SpecDownload. *)

\* The latest attempt wrote a chunk and the report of its progress raised.
ProgressReportFailed ==
    /\ TheTask.opened.att = TheTask.tries
    /\ TheTask.opened.kind = "fail_progress"
    /\ TheTask.opened.j >= 1

\* C17: when progress reporting fails while a chunk is being written, the
\* attempt is not counted as failed and the call does not raise because of it.
C17_ProgressFailureHarmless ==
    (Len(tasks) = 1 /\ ProgressReportFailed) =>
       /\ TheTask.failures < TheTask.tries
       /\ TheTask.status # "raised"

---------------------------------------------------------------------------
(* Further claims about process_playlist, on the whole pipeline. *)

\* C18: for every download_retry_attempts, 0 included, a call of
\* download_with_retries that returns has made an attempt that wrote the whole
\* body, and every manifest entry is that of a transfer of which an attempt
\* succeeded.
C18_EntriesAreCompleted ==
    /\ \A k \in 1 .. Len(tasks) :
          tasks[k].status = "returned" =>
             /\ tasks[k].ret = TRUE
             /\ tasks[k].tries = tasks[k].failures + 1
    /\ \A n \in 1 .. Len(pp.manifest) :
          /\ tasks[pp.yielded[n]].ret = TRUE
          /\ tasks[pp.yielded[n]].tries >= 1

---------------------------------------------------------------------------
(* Further claims about get_playlist, on SpecPlaylist. *)

\* The deep merge of the bodies of pages, in order, into an empty accumulator.
RECURSIVE MergePages(_, _)
MergePages(all, pages) ==
    IF pages = <<>> THEN all
    ELSE MergePages(merge_json(all, pages[1].json), Tail(pages))

\* C19: the terminating page is merged like any other: the playlist returned
\* is the deep merge of every page served, the empty one included, so that a
\* title the terminating page carries overrides the earlier ones while the
\* clip sequence stays as it was.
C19_TerminatingPageMerged ==
    (EndsAtEmptyPage /\ gp.status = "returned") =>
       /\ gp.ret = MergePages(EmptyDict, gp.served)
       /\ DictGet(gp.ret, "title") =
             DictGet(MergePages(EmptyDict, gp.served), "title")

\* C20: a page request answered with a non-success status makes get_playlist
\* raise a transport error: the failing request is its last one, and nothing
\* is returned, however many pages had been merged.
C20_HttpErrorAborts ==
    \A n \in 1 .. Len(gp.served) :
       gp.served[n].kind = "http_error" =>
          /\ n = Len(gp.served)
          /\ gp.requests = [m \in 1 .. n |-> m]
          /\ gp.status = "raised" /\ gp.exc = "HTTPError"
          /\ gp.ret = PyNone

C20_Witness ==
    /\ Len(gp.served) = 3
    /\ gp.served[3].kind = "http_error"
    /\ gp.status = "raised"
    /\ Len(playlist_clips(gp.all)) = 3

---------------------------------------------------------------------------
(* Claims about the naming of the files, on the whole pipeline. *)

\* The clip of work item k has an id and no title.
UntitledClip(k) ==
    /\ pp.clips[k].clip.t = "dict"
    /\ DictGet(pp.clips[k].clip, "id").t = "str"
    /\ DictGet(pp.clips[k].clip, "title").t = "none"

\* C21: the file of a clip that has an id and no title is named after the id:
\* sanitize(id) + "_" + id + extension, in the playlist's folder.
C21_IdAsTitle ==
    \A k \in 1 .. Len(tasks) :
       UntitledClip(k) =>
          LET id == DictGet(pp.clips[k].clip, "id")
          IN  tasks[k].out_path =
                 path_join(pp.folder,
                           sanitize_filename(id) \o <<"_">> \o id.v
                              \o ext_of(tasks[k].url))

---------------------------------------------------------------------------
(* Claims about the page cap of get_playlist, on SpecPlaylistFair. *)

\* Every page of the range has been served and none was empty.
CapReached ==
    /\ Len(gp.served) = PageCap - 1
    /\ \A n \in 1 .. Len(gp.served) : NonEmptyPage(gp.served[n])

\* C22: get_playlist always terminates: it makes no more requests than the
\* range has pages and in the end has returned or raised; when the server
\* never serves an empty page it returns, after the last page of the range,
\* the merge of all the pages fetched, without an error.
C22_CapTerminates ==
    /\ [](Len(gp.requests) <= PageCap - 1)
    /\ [](CapReached =>
             /\ gp.status = "returned" /\ gp.exc = ""
             /\ gp.ret = MergePages(EmptyDict, gp.served))
    /\ <>(gp.status \in {"returned", "raised"})

C22_Witness ==
    /\ CapReached
    /\ gp.status = "returned"
    /\ Len(playlist_clips(gp.ret)) >= PageCap
    /\ DictGet(gp.ret, "title") = PyStr(<<"u">>)

---------------------------------------------------------------------------
(* Claims about the submission loop and the outcomes of the transfers. *)

\* A step of the resolution of the clip the submission loop is at.
ResolutionStep ==
    PipelinePrepare \/ PipelineStatus \/ ProcessResolved \/ ProcessResolveFailed

\* C23: the control thread observes no outcome of a transfer before every
\* clip has been resolved and submitted: while the submission loop runs
\* nothing has been yielded or recorded and the resolution of the clip at hand
\* goes on, prepare call included, whatever has become of the transfers
\* submitted; and a transfer's failure is raised only once the loop has ended.
C23_OutcomesAfterSubmission ==
    /\ pp.pc = "resolve" =>
          /\ pp.yielded = <<>> /\ pp.manifest = <<>> /\ pp.exc = ""
          /\ ENABLED ResolutionStep
          /\ rq.status = "prepare" => ENABLED PipelinePrepare
    /\ (pp.yielded # <<>> \/ pp.exc = "transfer") =>
          /\ pp.log = LoopLog(Len(pp.clips))
          /\ Len(tasks) = Len(pp.clips)

\* The first clip's transfer has failed; the second clip is being resolved,
\* its prepare call still to come.
C23_Witness ==
    /\ pp.pc = "resolve" /\ pp.i = 2
    /\ rq.status = "prepare"
    /\ tasks[1].status = "raised"

=============================================================================
